---------------------------- MODULE Spec2Model ----------------------------
(***************************************************************************)
(* Token-bucket rate limiter (src/src/rate_limiter.rs).                    *)
(*                                                                         *)
(* RateLimiter::check computes key, max_tokens, refill_rate and now_ms,    *)
(* takes the engine's connection mutex and has the store run LUA_SCRIPT.   *)
(* The script is modelled command by command (HMGET, HMSET, EXPIRE); the   *)
(* store runs one script at a time.                                        *)
(*                                                                         *)
(* Numbers.  Token quantities are exact rationals kept as integers in      *)
(* units of 1/Unit token, Unit = 60 * 1000: one millisecond at one request *)
(* per minute refills exactly one unit, so                                 *)
(*   (elapsed_ms / 1000.0) * (requests_per_minute / 60.0)                  *)
(* is elapsed_ms * requests_per_minute units.  The rounding of IEEE        *)
(* doubles and of the store's number formatting is below this resolution   *)
(* and is not modelled.                                                    *)
(*                                                                         *)
(* Time.  The clock only moves forward.  A call reads now_ms before it     *)
(* takes the lock, so a script can still run with a now_ms below the       *)
(* last_refill stored by a call that read the clock later.                 *)
(*                                                                         *)
(* Spec has concurrent calls on two engines, each call step by step.       *)
(* SeqSpec has one caller whose calls run start to end one after another.  *)
(* RunSpec is SeqSpec for a caller that keeps to one rate and one burst,   *)
(* with the history of its decisions.  WireSpec is SeqSpec with a store    *)
(* whose reply may have any shape.  HttpSpec has the handler of            *)
(* src/src/handlers.rs in front of check.  LiveSpec has checks and pings   *)
(* started for ever, with the fairness of the mutex and of the store.      *)
(***************************************************************************)
EXTENDS Integers, Sequences, FiniteSets, TLC

\* ------------------------------------------------------------------ bounds
NumCalls    == 2      \* call slots that may be in flight at once
MaxStarts   == 2      \* check calls made in one behaviour of Spec
MaxBurst    == 2      \* largest burst a caller passes
MaxSec      == 1      \* seconds the clock may step beyond 0 and beyond expiry

\* --------------------------------------------------------- program numbers
SecPerMin   == 60     \* requests_per_minute as f64 / 60.0
MsPerSec    == 1000   \* elapsed_ms / 1000.0, ... * 1000
ExpireSec   == 120    \* redis.call('EXPIRE', key, 120)
I64Max      == 2147483647  \* stands for i64::MAX at the integer width TLC has

Unit        == SecPerMin * MsPerSec
ExpireMs    == ExpireSec * MsPerSec
I64Min      == 0 - I64Max

\* ------------------------------------------------------------------ inputs
Calls       == 1 .. NumCalls
Engines     == {1, 2}
ClientIds   == {"a", "b"}
Rates       == {0 - 60, 0, 60}
SeqRates    == Rates \cup {7}
SeqIds      == {"a"}
Bursts      == (0 - 1) .. MaxBurst
Instants    == {0, 1} \cup { k * MsPerSec : k \in 1 .. MaxSec }
                      \cup { ExpireMs + k * MsPerSec : k \in 0 .. MaxSec }
Free        == 0
\* engines are interchangeable: the first slot's call is made on engine 1
EnginesOf(c) == IF c = 1 THEN {1} ELSE Engines

VARIABLES
    clock,     \* SystemTime::now() in ms; the store's clock too
    rec,       \* the store: key -> bucket record
    conn,      \* per engine: the call holding conn's Mutex, or Free
    pc,        \* per call slot: where the call is
    arg,       \* per call slot: check's locals (key, max_tokens, rate, now_ms)
    loc,       \* per call slot: the script's locals
    res,       \* per call slot: what check returned
    wire,      \* the store's reply as it reaches the engine
    http,      \* the request the handler serves and the status it answers
    started,   \* history: check calls made so far
    streak,    \* history: consecutive same-instant calls on a fresh bucket
    hist       \* history: what one caller's earlier checks were and returned

vars == << clock, rec, conn, pc, arg, loc, res, wire, http, started, streak, hist >>

\* ------------------------------------------------------------ pure helpers
Max(a, b) == IF a >= b THEN a ELSE b
Min(a, b) == IF a <= b THEN a ELSE b

\* math.floor(x) for x = n / d, d > 0
Floor(n, d) == n \div d

\* a rounding that truncates instead of rounding up
CeilTrunc(n, d) == IF d > 0 THEN n \div d ELSE 0 - ((0 - n) \div (0 - d))

\* math.ceil(x) for x = n / d, d # 0
Ceil(n, d) == IF d > 0 THEN 0 - ((0 - n) \div d) ELSE 0 - (n \div (0 - d))

\* a key that is the unidentified callers' whoever calls
KeyOfUnknown(client_id) == "ratelimit:" \o "unknown"

\* let key = format!("ratelimit:{}", client_id)
KeyOf(client_id) == "ratelimit:" \o client_id

\* the identities a request can carry: a client's, or the literal "unknown"
Identities == ClientIds \cup {"unknown"}

Keys == { KeyOf(id) : id \in Identities }

\* a capacity taken from burst as it is
MaxTokensRaw(burst) == burst

\* let max_tokens = burst.max(1)
MaxTokens(burst) == Max(burst, 1)

\* ------------------------------------------------------------------- store
Absent == [present |-> FALSE, tokens |-> 0, last_refill |-> 0,
           ttl |-> FALSE, expireAt |-> 0]

\* the store's per-key expiration: at time t a key past its deadline is gone
Expired(r, t) == r.present /\ r.ttl /\ t >= r.expireAt

Live(k) == rec[k].present /\ ~Expired(rec[k], clock)

\* a read that still sees a record past its deadline
HMGetStale(r, t) == IF r.present
                 THEN [nil |-> FALSE, tokens |-> r.tokens, last_refill |-> r.last_refill]
                 ELSE [nil |-> TRUE, tokens |-> 0, last_refill |-> 0]

\* redis.call('HMGET', key, 'tokens', 'last_refill'); nil when the key is absent
HMGet(r, t) == IF r.present /\ ~Expired(r, t)
            THEN [nil |-> FALSE, tokens |-> r.tokens, last_refill |-> r.last_refill]
            ELSE [nil |-> TRUE, tokens |-> 0, last_refill |-> 0]

\* redis.call('HMSET', key, 'tokens', tokens, 'last_refill', last_refill)
HMSet(r, tokens, last_refill) ==
    [present |-> TRUE, tokens |-> tokens, last_refill |-> last_refill,
     ttl |-> r.ttl, expireAt |-> r.expireAt]

\* an expiration set only on a key that has none
ExpireIfNone(r, t) == IF r.present /\ ~r.ttl
                      THEN [r EXCEPT !.ttl = TRUE, !.expireAt = t + ExpireMs]
                      ELSE r

\* redis.call('EXPIRE', key, 120), run at time t
Expire(r, t) == IF r.present
                THEN [r EXCEPT !.ttl = TRUE, !.expireAt = t + ExpireMs]
                ELSE r

\* ------------------------------------------------------------ the script
\* lines 75-77: what the script holds after HMGET.  The store's time stands
\* still while a script runs: `at` is the time the script started.
ReadLoc(r, t) ==
    LET got == HMGet(r, t)
    IN  [stage |-> "read", at |-> t,
         saw |-> IF ~r.present THEN "absent"
                 ELSE IF Expired(r, t) THEN "expired" ELSE "live",
         nil |-> got.nil, got_tokens |-> got.tokens,
         got_last_refill |-> got.last_refill,
         pre |-> 0, tokens |-> 0, allowed |-> 0, retry |-> 0, inf |-> FALSE,
         reply |-> << >>]

\* a key past its deadline is deleted when it is accessed
Purge(r, t) == IF Expired(r, t) THEN Absent ELSE r

\* a refill without the cap
RefillUncapped(max_tokens, rpm, now_ms, l) ==
    LET tokens        == IF l.nil THEN max_tokens * Unit ELSE l.got_tokens
        last_refill   == IF l.nil THEN now_ms ELSE l.got_last_refill
    IN  tokens + (now_ms - last_refill) * rpm

\* lines 79-87: initialise an absent bucket, refill, cap
Refill(max_tokens, rpm, now_ms, l) ==
    LET tokens        == IF l.nil THEN max_tokens * Unit ELSE l.got_tokens
        last_refill   == IF l.nil THEN now_ms ELSE l.got_last_refill
        elapsed_ms    == now_ms - last_refill
        refill_amount == elapsed_ms * rpm
    IN  Min(max_tokens * Unit, tokens + refill_amount)

\* a consume that needs more than one whole token
ConsumeStrict(rpm, tokens) ==
    IF tokens > Unit
    THEN [allowed |-> 1, tokens |-> tokens - Unit, retry |-> 0, inf |-> FALSE]
    ELSE [allowed |-> 0, tokens |-> tokens,
          retry |-> IF rpm = 0 THEN 0 ELSE Ceil(Unit - tokens, rpm),
          inf |-> (rpm = 0)]

\* lines 89-98: consume one token, or compute the wait (x / 0 is inf)
Consume(rpm, tokens) ==
    IF tokens >= Unit
    THEN [allowed |-> 1, tokens |-> tokens - Unit, retry |-> 0, inf |-> FALSE]
    ELSE IF rpm = 0
         THEN [allowed |-> 0, tokens |-> tokens, retry |-> 0, inf |-> TRUE]
         ELSE [allowed |-> 0, tokens |-> tokens,
               retry |-> Ceil(Unit - tokens, rpm), inf |-> FALSE]

\* lines 79-98: the script's locals when it reaches HMSET
UpdateLoc(a, l) ==
    LET pre == Refill(a.max_tokens, a.rpm, a.now_ms, l)
        d   == Consume(a.rpm, pre)
    IN  [l EXCEPT !.stage = "written", !.pre = pre, !.tokens = d.tokens,
                  !.allowed = d.allowed, !.retry = d.retry, !.inf = d.inf]

\* a script number as an integer reply; what an infinite double converts to
\* is not defined: it saturates one way or the other
ToInteger(n, inf) == IF inf THEN {I64Min, I64Max} ELSE {n}

\* line 103: return {allowed, math.floor(tokens), retry_after_ms}
Replies(l) ==
    { << l.allowed, Floor(l.tokens, Unit), r >> : r \in ToInteger(l.retry, l.inf) }

\* lines 56-60: Ok(RateLimitResult { .. })
Decision(result) ==
    [kind |-> "ok", allowed |-> (result[1] = 1), remaining |-> result[2],
     retry_after_ms |-> result[3]]

NoLoc == [stage |-> "none", at |-> 0, saw |-> "none", nil |-> FALSE, got_tokens |-> 0,
          got_last_refill |-> 0, pre |-> 0, tokens |-> 0, allowed |-> 0,
          retry |-> 0, inf |-> FALSE, reply |-> << >>]

NoArg == [eng |-> 0, id |-> "", key |-> "", max_tokens |-> 0, rpm |-> 0,
          now_ms |-> 0]

NoRes == [kind |-> "none", allowed |-> FALSE, remaining |-> 0, retry_after_ms |-> 0]

\* line 54: Err(e) through `?`
ErrRes == [NoRes EXCEPT !.kind = "err"]

\* indexing result[0], result[1], result[2] past the end of the Vec panics
PanicRes == [NoRes EXCEPT !.kind = "panic"]

NoWire == [kind |-> "none", items |-> << >>]

\* the reply to EVALSHA as an array of integers
WireOf(result) == [kind |-> "array", items |-> result]

\* what reaches the engine for a script that returned `result`: that array;
\* from a faulty store also a shorter or longer array, or a status line
Deliveries(result, faulty) ==
    IF faulty
    THEN { WireOf(SubSeq(result, 1, n)) : n \in 0 .. Len(result) }
         \cup { WireOf(result \o << 0 >>), [kind |-> "status", items |-> << >>] }
    ELSE { WireOf(result) }

\* line 47: let result: Vec<i64> = ..: an array of integers of any length
\* converts, anything else is a type error
FromRedisValue(v) ==
    IF v.kind = "array" THEN [ok |-> TRUE, vec |-> v.items]
                        ELSE [ok |-> FALSE, vec |-> << >>]

\* lines 47-60: `?` on the conversion, then the three indexings
Returned(v) ==
    LET result == FromRedisValue(v)
    IN  IF ~result.ok THEN ErrRes
        ELSE IF Len(result.vec) < 3 THEN PanicRes
        ELSE Decision(result.vec)

\* a header or an address a request may lack; a header value holds visible
\* ASCII only, or some other byte as well (text then stands for its bytes)
None == [some |-> FALSE, visible |-> FALSE, text |-> "", value |-> 0]

ApiKeys == {None} \cup { [None EXCEPT !.some = TRUE, !.visible = TRUE, !.text = t] :
                           t \in {"a", "unknown"} }
                 \cup { [None EXCEPT !.some = TRUE, !.text = "a"] }

RemoteAddrs == {None, [None EXCEPT !.some = TRUE, !.visible = TRUE, !.text = "b"]}

\* CheckRequest: limit, and burst when the body has one
Limits == {MaxBurst}
BodyBursts == {None, [None EXCEPT !.some = TRUE, !.value = 1]}

NoReq == [api_key |-> None, remote |-> None, limit |-> 0, burst |-> None]

NoHttp == [stage |-> "none", req |-> NoReq, client_id |-> "", status |-> 0,
           prev_req |-> NoReq, prev_key |-> ""]

\* HeaderValue::to_str: Ok for visible ASCII only
to_str(h) == [ok |-> h.visible, text |-> IF h.visible THEN h.text ELSE ""]

\* an extraction that prefers the remote address to the header
extract_remote_first(req) ==
    IF req.remote.some THEN req.remote.text
    ELSE IF req.api_key.some /\ to_str(req.api_key).ok THEN to_str(req.api_key).text
    ELSE "unknown"

\* handlers.rs 57-68
extract_client_id(req) ==
    IF req.api_key.some /\ to_str(req.api_key).ok
    THEN to_str(req.api_key).text
    ELSE IF req.remote.some THEN req.remote.text ELSE "unknown"

\* Option::unwrap_or
unwrap_or(o, d) == IF o.some THEN o.value ELSE d

\* handlers.rs 32: 200 or 429; 43: 500
StatusOf(r) == IF r.kind = "ok" THEN (IF r.allowed THEN 200 ELSE 429) ELSE 500


\* what the history keeps of one check: its burst, whether it found no record
NoSeen == [made |-> FALSE, burst |-> 0, nil |-> FALSE, now_ms |-> 0]

PlainRates == {60}

\* one caller's run of checks with one rate and one burst: the rates, the
\* bursts and the instants of such runs (10 and 2000 are the test's)
RunRates    == {0 - 60, 0, 1, 60}
RunBursts   == {0 - 1, 0, 3, 10}
RunInstants == {0, 500, 1000, 2000, ExpireMs, ExpireMs + 1000}

NoStreak == [n |-> 0, key |-> "", now_ms |-> 0, max_tokens |-> 0]

NoDue == [set |-> FALSE, at |-> 0]

NoHist == [run |-> FALSE, last |-> NoSeen, prev |-> NoSeen,
           rpm |-> 0, burst |-> 0, before |-> NoStreak,
           count |-> [t \in RunInstants |-> 0], due |-> NoDue, late |-> FALSE]

\* lines 37-43: key, max_tokens, refill_rate, now_ms
Args(e, id, rpm, burst) ==
    [eng |-> e, id |-> id, key |-> KeyOf(id), max_tokens |-> MaxTokens(burst),
     rpm |-> rpm, now_ms |-> clock]

\* a store that lets scripts interleave command by command
StoreIdleNone == TRUE

\* the store runs one script at a time, start to end
StoreIdle == \A d \in Calls : pc[d] \notin {"hmget", "hmset"}

\* ------------------------------------------------------------------ actions
\* check, lines 37-43
StartWith(c, e, id, rpm, burst) ==
    /\ pc[c] = "idle"
    /\ arg' = [arg EXCEPT ![c] = Args(e, id, rpm, burst)]
    /\ pc' = [pc EXCEPT ![c] = "acquire"]
    /\ UNCHANGED << clock, rec, conn, loc, res >>

Start(c) ==
    \E e \in EnginesOf(c), id \in ClientIds, rpm \in Rates, burst \in Bursts :
        StartWith(c, e, id, rpm, burst)

\* check, line 45: self.conn.lock().await
Lock(c) ==
    /\ pc[c] = "acquire"
    /\ conn[arg[c].eng] = Free
    /\ conn' = [conn EXCEPT ![arg[c].eng] = c]
    /\ pc' = [pc EXCEPT ![c] = "invoke"]
    /\ UNCHANGED << clock, rec, arg, loc, res >>

\* script, lines 75-77: the store starts the script and reads the record
ScriptRead(c) ==
    /\ pc[c] = "invoke"
    /\ StoreIdle
    /\ loc' = [loc EXCEPT ![c] = ReadLoc(rec[arg[c].key], clock)]
    /\ rec' = [rec EXCEPT ![arg[c].key] = Purge(@, clock)]
    /\ pc' = [pc EXCEPT ![c] = "hmget"]
    /\ UNCHANGED << clock, conn, arg, res >>

\* script, lines 79-100: refill, decide, persist
ScriptUpdate(c) ==
    /\ pc[c] = "hmget"
    /\ loc' = [loc EXCEPT ![c] = UpdateLoc(arg[c], @)]
    /\ rec' = [rec EXCEPT ![arg[c].key] =
                 HMSet(@, loc'[c].tokens, arg[c].now_ms)]
    /\ pc' = [pc EXCEPT ![c] = "hmset"]
    /\ UNCHANGED << clock, conn, arg, res >>

\* script, lines 101-103: expire, return the three numbers
ScriptExpire(c) ==
    /\ pc[c] = "hmset"
    /\ \E result \in Replies(loc[c]) :
          loc' = [loc EXCEPT ![c] = [@ EXCEPT !.stage = "complete",
                                              !.reply = result]]
    /\ rec' = [rec EXCEPT ![arg[c].key] = Expire(@, loc[c].at)]
    /\ pc' = [pc EXCEPT ![c] = "reply"]
    /\ UNCHANGED << clock, conn, arg, res >>

\* check, lines 54-61: the reply arrives; Ok(..); the guard drops
CheckOk(c) ==
    /\ pc[c] = "reply"
    /\ res' = [res EXCEPT ![c] = Decision(loc[c].reply)]
    /\ conn' = [conn EXCEPT ![arg[c].eng] = Free]
    /\ pc' = [pc EXCEPT ![c] = "done"]
    /\ UNCHANGED << clock, rec, arg, loc >>

\* a check that fails open: no error, an admitting decision instead
InvokeFailOpen(c) ==
    /\ pc[c] = "invoke"
    /\ res' = [res EXCEPT ![c] = Decision(<< 1, 0, 0 >>)]
    /\ conn' = [conn EXCEPT ![arg[c].eng] = Free]
    /\ pc' = [pc EXCEPT ![c] = "done"]
    /\ UNCHANGED << clock, rec, arg, loc >>

\* check, line 54: invoke_async(..).await? fails; the store never ran the script
InvokeFail(c) ==
    /\ pc[c] = "invoke"
    /\ res' = [res EXCEPT ![c] = ErrRes]
    /\ conn' = [conn EXCEPT ![arg[c].eng] = Free]
    /\ pc' = [pc EXCEPT ![c] = "done"]
    /\ UNCHANGED << clock, rec, arg, loc >>

\* check, line 54: the connection fails after the store ran the script
ReplyFail(c) ==
    /\ pc[c] = "reply"
    /\ res' = [res EXCEPT ![c] = ErrRes]
    /\ conn' = [conn EXCEPT ![arg[c].eng] = Free]
    /\ pc' = [pc EXCEPT ![c] = "done"]
    /\ UNCHANGED << clock, rec, arg, loc >>

\* the caller has the result; the slot serves the next call
Return(c) ==
    /\ pc[c] = "done"
    /\ pc' = [pc EXCEPT ![c] = "idle"]
    /\ arg' = [arg EXCEPT ![c] = NoArg]
    /\ loc' = [loc EXCEPT ![c] = NoLoc]
    /\ res' = [res EXCEPT ![c] = NoRes]
    /\ UNCHANGED << clock, rec, conn >>

\* SystemTime::now() moves on
Tick ==
    /\ \E t \in Instants : t > clock /\ clock' = t
    /\ UNCHANGED << rec, conn, pc, arg, loc, res >>

Init ==
    /\ clock = 0
    /\ rec = [k \in Keys |-> Absent]
    /\ conn = [e \in Engines |-> Free]
    /\ pc = [c \in Calls |-> "idle"]
    /\ arg = [c \in Calls |-> NoArg]
    /\ loc = [c \in Calls |-> NoLoc]
    /\ res = [c \in Calls |-> NoRes]
    /\ wire = NoWire
    /\ http = NoHttp
    /\ started = 0
    /\ streak = NoStreak
    /\ hist = NoHist

\* concurrent callers on several engines, each call step by step
Next ==
    \/ \E c \in Calls : /\ started < MaxStarts
                        /\ Start(c)
                        /\ started' = started + 1
                        /\ UNCHANGED << streak, wire, http, hist >>
    \/ \E c \in Calls : Lock(c) /\ UNCHANGED << started, streak, wire, http, hist >>
    \/ \E c \in Calls : ScriptRead(c) /\ UNCHANGED << started, streak, wire, http, hist >>
    \/ \E c \in Calls : ScriptUpdate(c) /\ UNCHANGED << started, streak, wire, http, hist >>
    \/ \E c \in Calls : ScriptExpire(c) /\ UNCHANGED << started, streak, wire, http, hist >>
    \/ \E c \in Calls : CheckOk(c) /\ UNCHANGED << started, streak, wire, http, hist >>
    \/ \E c \in Calls : InvokeFail(c) /\ UNCHANGED << started, streak, wire, http, hist >>
    \/ \E c \in Calls : ReplyFail(c) /\ UNCHANGED << started, streak, wire, http, hist >>
    \/ \E c \in Calls : Return(c) /\ UNCHANGED << started, streak, wire, http, hist >>
    \/ Tick /\ UNCHANGED << started, streak, wire, http, hist >>

Spec == Init /\ [][Next]_vars

\* ------------------------------------------------- one caller, call by call
\* the history of same-instant calls on a bucket that started absent or full
NextStreak(a, l) ==
    LET cont  == /\ streak.n >= 1
                 /\ streak.key = a.key
                 /\ streak.now_ms = a.now_ms
                 /\ streak.max_tokens = a.max_tokens
        fresh == l.nil \/ ( /\ l.got_tokens = a.max_tokens * Unit
                            /\ l.got_last_refill <= a.now_ms )
    IN  IF a.rpm <= 0 THEN NoStreak
        ELSE IF cont THEN [streak EXCEPT !.n = Min(@ + 1, a.max_tokens + 2)]
        ELSE IF fresh THEN [n |-> 1, key |-> a.key, now_ms |-> a.now_ms,
                            max_tokens |-> a.max_tokens]
        ELSE NoStreak

\* the history of one caller's checks
NextHist(a, burst, l, r) ==
    LET ok   == r.kind = "ok"
        wait == IF r.retry_after_ms >= I64Max - a.now_ms
                THEN I64Max ELSE a.now_ms + r.retry_after_ms
    IN  IF ~hist.run THEN hist
        ELSE [hist EXCEPT
                !.prev   = hist.last,
                !.last   = [made |-> TRUE, burst |-> burst, nil |-> l.nil,
                            now_ms |-> a.now_ms],
                !.before = streak,
                !.count  = IF ok /\ r.allowed
                           THEN [@ EXCEPT ![a.now_ms] = @ + 1] ELSE @,
                !.late   = hist.due.set /\ a.now_ms >= hist.due.at,
                !.due    = IF ~ok THEN @
                           ELSE IF r.allowed THEN NoDue
                           ELSE IF @.set THEN [@ EXCEPT !.at = Min(@, wait)]
                           ELSE [set |-> TRUE, at |-> wait]]

\* check, lines 31-61, start to return, with nothing else in flight; the
\* store's reply reaches the engine as the script gave it, or, from a store
\* that is faulty, in another shape
Check1(id, rpm, burst, faulty) ==
    /\ pc[1] \in {"idle", "done"}
    /\ LET a  == Args(1, id, rpm, burst)
           l1 == ReadLoc(rec[a.key], clock)
           l2 == UpdateLoc(a, l1)
           r2 == HMSet(Purge(rec[a.key], clock), l2.tokens, a.now_ms)
       IN  \E result \in Replies(l2) :
             \E v \in Deliveries(result, faulty) :
               /\ arg' = [arg EXCEPT ![1] = a]
               /\ loc' = [loc EXCEPT ![1] = [l2 EXCEPT !.stage = "complete",
                                                       !.reply = result]]
               /\ rec' = [rec EXCEPT ![a.key] = Expire(r2, l2.at)]
               /\ wire' = v
               /\ res' = [res EXCEPT ![1] = Returned(v)]
               /\ streak' = NextStreak(a, l1)
               /\ hist' = NextHist(a, burst, l1, Returned(v))
    /\ pc' = [pc EXCEPT ![1] = "done"]
    /\ UNCHANGED << clock, conn, started >>

SeqCheck ==
    /\ \E id \in SeqIds, rpm \in SeqRates, burst \in Bursts :
          Check1(id, rpm, burst, FALSE)
    /\ UNCHANGED http

SeqTick == Tick /\ UNCHANGED << started, streak, wire, http, hist >>

SeqNext == SeqCheck \/ SeqTick

SeqSpec == Init /\ [][SeqNext]_vars

\* ------------------------------------- one caller, a store that may be faulty
WireCheck ==
    /\ \E id \in SeqIds, rpm \in PlainRates, burst \in Bursts :
          Check1(id, rpm, burst, TRUE)
    /\ UNCHANGED http

WireNext == WireCheck \/ SeqTick

WireSpec == Init /\ [][WireNext]_vars

\* ------------------------------- one caller, one rate and one burst throughout
\* unless it is a step of the handler or of one caller's history, a step
\* leaves these alone
Quiet == UNCHANGED << started, streak, wire, http, hist >>

RunInit ==
    /\ clock = 0
    /\ rec = [k \in Keys |-> Absent]
    /\ conn = [e \in Engines |-> Free]
    /\ pc = [c \in Calls |-> "idle"]
    /\ arg = [c \in Calls |-> NoArg]
    /\ loc = [c \in Calls |-> NoLoc]
    /\ res = [c \in Calls |-> NoRes]
    /\ wire = NoWire
    /\ http = NoHttp
    /\ started = 0
    /\ streak = NoStreak
    /\ \E rpm \in RunRates, burst \in RunBursts :
          hist = [NoHist EXCEPT !.run = TRUE, !.rpm = rpm, !.burst = burst]

RunCheck ==
    /\ \E id \in SeqIds : Check1(id, hist.rpm, hist.burst, FALSE)
    /\ UNCHANGED http

RunTick ==
    /\ \E t \in RunInstants : t > clock /\ clock' = t
    /\ UNCHANGED << rec, conn, pc, arg, loc, res >>
    /\ Quiet

RunNext == RunCheck \/ RunTick

RunSpec == RunInit /\ [][RunNext]_vars

\* ------------------------------------------- the handler, request by request
\* handlers.rs 20-47 with a check that is answered
check_rate_limit ==
    \E k \in ApiKeys, r \in RemoteAddrs, limit \in Limits, b \in BodyBursts :
        LET req       == [api_key |-> k, remote |-> r, limit |-> limit, burst |-> b]
            client_id == extract_client_id(req)
            burst     == unwrap_or(req.burst, req.limit)
        IN  /\ Check1(client_id, req.limit, burst, FALSE)
            /\ http' = [stage |-> "answered", req |-> req, client_id |-> client_id,
                        status |-> StatusOf(res'[1]),
                        prev_req |-> [http.req EXCEPT !.limit = 0, !.burst = None], prev_key |-> arg[1].key]

\* handlers.rs 20-47 with a check that fails before the store runs the script
check_rate_limit_err ==
    \E k \in ApiKeys, r \in RemoteAddrs, limit \in Limits, b \in BodyBursts :
        LET req       == [api_key |-> k, remote |-> r, limit |-> limit, burst |-> b]
            client_id == extract_client_id(req)
            burst     == unwrap_or(req.burst, req.limit)
        IN  /\ pc[1] \in {"idle", "done"}
            /\ arg' = [arg EXCEPT ![1] = Args(1, client_id, req.limit, burst)]
            /\ loc' = [loc EXCEPT ![1] = NoLoc]
            /\ res' = [res EXCEPT ![1] = ErrRes]
            /\ pc' = [pc EXCEPT ![1] = "done"]
            /\ http' = [stage |-> "answered", req |-> req, client_id |-> client_id,
                        status |-> StatusOf(ErrRes),
                        prev_req |-> [http.req EXCEPT !.limit = 0, !.burst = None], prev_key |-> arg[1].key]
            /\ UNCHANGED << clock, rec, conn, wire, started, streak, hist >>

HttpNext == check_rate_limit \/ check_rate_limit_err

HttpSpec == Init /\ [][HttpNext]_vars

\* ------------------------------------------- checks and pings, run for ever
\* ping, line 64, called for engine e
PingStart(c) ==
    /\ pc[c] = "idle"
    /\ \E e \in EnginesOf(c) : arg' = [arg EXCEPT ![c] = [NoArg EXCEPT !.eng = e]]
    /\ pc' = [pc EXCEPT ![c] = "ping_acquire"]
    /\ UNCHANGED << clock, rec, conn, loc, res >>

\* ping, line 64: self.conn.lock().await
PingLock(c) ==
    /\ pc[c] = "ping_acquire"
    /\ conn[arg[c].eng] = Free
    /\ conn' = [conn EXCEPT ![arg[c].eng] = c]
    /\ pc' = [pc EXCEPT ![c] = "ping"]
    /\ UNCHANGED << clock, rec, arg, loc, res >>

\* ping, line 65: the store answers PONG; Ok(()); the guard drops
PingOk(c) ==
    /\ pc[c] = "ping"
    /\ res' = [res EXCEPT ![c] = [NoRes EXCEPT !.kind = "pong"]]
    /\ conn' = [conn EXCEPT ![arg[c].eng] = Free]
    /\ pc' = [pc EXCEPT ![c] = "done"]
    /\ UNCHANGED << clock, rec, arg, loc >>

\* a failed ping that returns with the guard still held
PingFailHold(c) ==
    /\ pc[c] = "ping"
    /\ res' = [res EXCEPT ![c] = ErrRes]
    /\ pc' = [pc EXCEPT ![c] = "done"]
    /\ UNCHANGED << clock, rec, conn, arg, loc >>

\* ping, line 65: the query fails or times out; Err(e); the guard drops
PingFail(c) ==
    /\ pc[c] = "ping"
    /\ res' = [res EXCEPT ![c] = ErrRes]
    /\ conn' = [conn EXCEPT ![arg[c].eng] = Free]
    /\ pc' = [pc EXCEPT ![c] = "done"]
    /\ UNCHANGED << clock, rec, arg, loc >>

LiveStart(c) ==
    /\ \E e \in EnginesOf(c), id \in SeqIds, rpm \in PlainRates :
          StartWith(c, e, id, rpm, MaxBurst)
    /\ Quiet

\* lines 45 and 64: the mutex hands the lock to its waiters in turn
Acquire(c) == (Lock(c) \/ PingLock(c)) /\ Quiet

\* the store's next step for the call, or the driver giving up on it
Answer(c) ==
    /\ \/ ScriptRead(c) \/ InvokeFail(c)
       \/ ScriptUpdate(c)
       \/ ScriptExpire(c)
       \/ CheckOk(c) \/ ReplyFail(c)
       \/ PingOk(c) \/ PingFail(c)
    /\ Quiet

\* SystemTime::now() moves on, here in one step of a whole expiry window
TickWindow ==
    /\ clock < ExpireMs
    /\ clock' = ExpireMs
    /\ UNCHANGED << rec, conn, pc, arg, loc, res >>
    /\ Quiet

LiveNext ==
    \/ \E c \in Calls : LiveStart(c)
    \/ \E c \in Calls : PingStart(c) /\ Quiet
    \/ \E c \in Calls : Acquire(c)
    \/ \E c \in Calls : Answer(c)
    \/ \E c \in Calls : Return(c) /\ Quiet
    \/ TickWindow

\* every store invocation is answered or times out (weak fairness); the
\* mutex is fair to its waiters (strong fairness)
LiveSpec ==
    /\ Init /\ [][LiveNext]_vars
    /\ \A c \in Calls : SF_vars(Acquire(c)) /\ WF_vars(Answer(c))

\* ------------------------------------------------------------------ claims
Done(c) == pc[c] = "done" /\ res[c].kind = "ok"

Allowed == { c \in Calls : res[c].allowed }

\* C1: NumCalls concurrent checks of one previously unseen key, same positive
\* rate, same burst N <= NumCalls, all reading now_ms within a span that
\* refills less than one token (and run before the record expires), admit
\* exactly N in every interleaving.
C1_ExactlyNAdmitted ==
    ( /\ started = NumCalls
      /\ \A c \in Calls : /\ Done(c)
                          /\ arg[c].key = arg[1].key
                          /\ arg[c].rpm = arg[1].rpm
                          /\ arg[c].max_tokens = arg[1].max_tokens
      /\ arg[1].rpm > 0
      /\ arg[1].max_tokens <= NumCalls
      /\ \A c, d \in Calls :
            (arg[c].now_ms - arg[d].now_ms) * arg[1].rpm < Unit
      /\ \E c \in Calls : /\ loc[c].saw = "absent"
                          /\ \A d \in Calls \ {c} : loc[d].saw = "live" )
    => Cardinality(Allowed) = arg[1].max_tokens

\* C2: while a script is between its read and its last command no other
\* script runs, and the record of its key is what the script read (before
\* HMSET) or wrote (after it): the scripts take effect one at a time.
C2_ScriptIndivisible ==
    \A c \in Calls :
        LET r == rec[arg[c].key]
        IN  /\ pc[c] \in {"hmget", "hmset"} =>
                \A d \in Calls \ {c} : pc[d] \notin {"hmget", "hmset"}
            /\ pc[c] = "hmget" =>
                /\ HMGet(r, loc[c].at).nil = loc[c].nil
                /\ HMGet(r, loc[c].at).tokens = loc[c].got_tokens
                /\ HMGet(r, loc[c].at).last_refill = loc[c].got_last_refill
            /\ pc[c] = "hmset" =>
                /\ r.present
                /\ r.tokens = loc[c].tokens
                /\ r.last_refill = arg[c].now_ms

\* two calls on one key, on different engines, one of them inside the script
C2_Witness ==
    /\ pc[1] = "hmget" /\ pc[2] = "invoke"
    /\ arg[1].key = arg[2].key /\ arg[1].eng # arg[2].eng

\* C3: N consecutive checks with max_tokens = N at one now_ms, on a bucket that
\* was absent or full, are all allowed and leave tokens = 0; the next is denied.
C3_Saturation ==
    streak.n >= 1 =>
        /\ pc[1] = "done" /\ res[1].kind = "ok"
        /\ streak.n <= streak.max_tokens =>
              /\ res[1].allowed
              /\ rec[streak.key].tokens = (streak.max_tokens - streak.n) * Unit
        /\ streak.n > streak.max_tokens =>
              /\ ~res[1].allowed
              /\ rec[streak.key].tokens = 0

\* the (N+1)th call of a streak on a bucket of capacity N >= 2
C3_Witness ==
    /\ streak.max_tokens >= 2
    /\ streak.n = streak.max_tokens + 1
    /\ ~res[1].allowed

\* C4: the record a check has just written satisfies
\* 0 <= tokens <= max_tokens of that check.
C4_BucketInvariant ==
    \A c \in Calls :
        pc[c] = "hmset" =>
            /\ rec[arg[c].key].present
            /\ 0 <= rec[arg[c].key].tokens
            /\ rec[arg[c].key].tokens <= arg[c].max_tokens * Unit

\* C5: a check with requests_per_minute <= 0 returns InvalidLimit and the
\* store never runs the script for it.
C5_InvalidLimitRejected ==
    \A c \in Calls :
        (pc[c] # "idle" /\ arg[c].rpm <= 0) =>
            /\ pc[c] \notin {"hmget", "hmset", "reply"}
            /\ loc[c].stage = "none"
            /\ pc[c] = "done" => res[c].kind = "invalid_limit"

\* C6: a check whose now_ms is below the stored last_refill has, before it
\* consumes, at least the stored tokens (capped at max_tokens).
C6_NegativeElapsedClamped ==
    \A c \in Calls :
        ( /\ loc[c].stage \in {"written", "complete"}
          /\ ~loc[c].nil
          /\ arg[c].now_ms < loc[c].got_last_refill )
        => loc[c].pre >= Min(arg[c].max_tokens * Unit, loc[c].got_tokens)

\* C7: a check denied with t < 1 tokens at a positive rate returns the least
\* whole number of ms after which t has grown to one token, which is
\* ceil((1 - t) / r * 1000); t = 0 at one token per second gives 1000.
C7_RetryAfter ==
    ( Done(1) /\ ~res[1].allowed /\ arg[1].rpm > 0 ) =>
        LET t == loc[1].pre
            R == res[1].retry_after_ms
        IN  /\ t < Unit
            /\ t + R * arg[1].rpm >= Unit
            /\ t + (R - 1) * arg[1].rpm < Unit
            /\ (t = 0 /\ arg[1].rpm = SecPerMin) => R = MsPerSec

\* a denial whose wait is not a whole number of ms before rounding
C7_Witness ==
    /\ Done(1) /\ ~res[1].allowed /\ arg[1].rpm > 0
    /\ (Unit - loc[1].pre) % arg[1].rpm # 0

\* C8: every decision has remaining >= 0 and retry_after_ms >= 0; allowed
\* means retry_after_ms = 0 and remaining = floor(tokens - 1); denied means
\* tokens untouched, remaining = 0 and retry_after_ms > 0.
C8_DecisionShape ==
    \A c \in Calls :
        Done(c) =>
            /\ res[c].remaining >= 0
            /\ res[c].retry_after_ms >= 0
            /\ res[c].allowed =>
                  /\ res[c].retry_after_ms = 0
                  /\ res[c].remaining = Floor(loc[c].pre - Unit, Unit)
            /\ ~res[c].allowed =>
                  /\ loc[c].tokens = loc[c].pre
                  /\ res[c].remaining = 0
                  /\ res[c].retry_after_ms > 0

\* C9: a check that finds its key never written and a check that finds it
\* expired both start from tokens = max_tokens, last_refill = now_ms: the
\* decision and the record left depend on (rate, burst, now_ms) alone.
C9_AbsentLikeExpired ==
    ( pc[1] = "done" /\ loc[1].saw \in {"absent", "expired"} ) =>
        /\ loc[1].nil
        /\ loc[1].pre = arg[1].max_tokens * Unit
        /\ res[1] = [kind |-> "ok", allowed |-> TRUE,
                     remaining |-> arg[1].max_tokens - 1, retry_after_ms |-> 0]
        /\ rec[arg[1].key] =
              [present |-> TRUE, tokens |-> (arg[1].max_tokens - 1) * Unit,
               last_refill |-> arg[1].now_ms, ttl |-> TRUE,
               expireAt |-> arg[1].now_ms + ExpireMs]

\* a check on a key whose record had expired
C9_Witness == pc[1] = "done" /\ loc[1].saw = "expired"

\* C10: a call whose invocation fails returns an error and no decision, is not
\* sent again, leaves every record as it was and frees the connection; a call
\* that returns an error has run the script not at all or to its end.
C10_FailureNoEffect ==
    [][ \A c \in Calls :
          /\ ( pc[c] = "invoke" /\ pc'[c] # "invoke" ) =>
                \/ pc'[c] = "hmget"
                \/ /\ pc'[c] = "done"
                   /\ res'[c] = ErrRes
                   /\ loc'[c].stage = "none"
                   /\ rec' = rec
                   /\ conn'[arg[c].eng] = Free
          /\ ( pc[c] = "done" /\ pc'[c] # "done" ) => pc'[c] = "idle"
          /\ ( pc[c] # "done" /\ pc'[c] = "done" /\ res'[c].kind = "err" ) =>
                /\ res'[c] = ErrRes
                /\ loc'[c].stage \in {"none", "complete"}
                /\ rec' = rec
                /\ conn'[arg[c].eng] = Free
      ]_vars

\* a failed call with a record in the store, its connection free again
C10_Witness ==
    \E c \in Calls :
        /\ pc[c] = "done" /\ res[c] = ErrRes /\ loc[c].stage = "none"
        /\ rec[arg[c].key].present
        /\ conn[arg[c].eng] = Free

\* C11: a check that receives anything other than an array of exactly three
\* integers returns an error to its caller: it does not panic and it builds no
\* decision from what it received.
C11_MalformedIsError ==
    ( /\ pc[1] = "done"
      /\ wire.kind # "none"
      /\ ~ ( wire.kind = "array" /\ Len(wire.items) = 3 ) )
    => res[1].kind = "err"

\* C12: a check with burst <= 0 and a positive rate has max_tokens = 1: on a
\* bucket with no record it is allowed with remaining = 0, and a second such
\* check at the same instant is denied.
C12_MinimumCapacity ==
    ( /\ hist.run /\ pc[1] = "done" /\ res[1].kind = "ok"
      /\ hist.last.burst <= 0 /\ arg[1].rpm > 0 ) =>
        /\ arg[1].max_tokens = 1
        /\ hist.last.nil =>
              /\ res[1].allowed
              /\ res[1].remaining = 0
              /\ res[1].retry_after_ms = 0
        /\ ( /\ hist.prev.made /\ hist.prev.nil /\ hist.prev.burst <= 0
             /\ hist.prev.now_ms = arg[1].now_ms
             /\ streak.n = 2 ) => ~res[1].allowed

\* the second check of two at one instant, both with burst <= 0, the first on
\* a bucket with no record
C12_Witness ==
    /\ hist.run /\ pc[1] = "done" /\ res[1].kind = "ok" /\ arg[1].rpm > 0
    /\ hist.last.burst <= 0 /\ ~hist.last.nil
    /\ hist.prev.made /\ hist.prev.nil /\ hist.prev.burst < 0
    /\ hist.prev.now_ms = arg[1].now_ms
    /\ streak.n = 2
    /\ ~res[1].allowed

InFlight(c) == pc[c] \in {"invoke", "hmget", "hmset", "reply", "ping"}

\* C13: every check and every ping returns (a decision, an error, a pong)
\* when every store invocation is answered or times out; an engine's lock is
\* held only by a call that has taken it and not yet returned.
C13_NoCallBlocksForever ==
    /\ [] ( \A e \in Engines : conn[e] # Free => /\ InFlight(conn[e])
                                                  /\ arg[conn[e]].eng = e )
    /\ \A c \in Calls : (pc[c] \notin {"idle", "done"}) ~> (pc[c] = "done")

\* a check waits for the lock of the engine on which a ping is in flight
C13_Witness ==
    /\ pc[1] = "ping" /\ conn[arg[1].eng] = 1
    /\ pc[2] = "acquire" /\ arg[2].eng = arg[1].eng

\* the identity the claim gives a request
HeaderFirst(req) ==
    IF req.api_key.some THEN req.api_key.text
    ELSE IF req.remote.some THEN req.remote.text ELSE "unknown"

\* the identity of a request whose header counts only if it is visible ASCII
VisibleHeaderFirst(req) ==
    IF req.api_key.some /\ req.api_key.visible THEN req.api_key.text
    ELSE IF req.remote.some THEN req.remote.text ELSE "unknown"

C15_RefillStep ==
    ( pc[1] = "done" /\ res[1].kind = "ok" ) =>
        /\ rec[arg[1].key].last_refill = arg[1].now_ms
        /\ ( ~loc[1].nil /\ arg[1].now_ms >= loc[1].got_last_refill ) =>
              LET grown == loc[1].got_tokens
                           + (arg[1].now_ms - loc[1].got_last_refill) * arg[1].rpm
              IN  /\ loc[1].pre = Min(arg[1].max_tokens * Unit, grown)
                  /\ loc[1].pre <= grown
        /\ ( /\ arg[1].rpm = 60
             /\ arg[1].max_tokens >= 2
             /\ hist.before.n = arg[1].max_tokens + 1
             /\ hist.before.max_tokens = arg[1].max_tokens
             /\ hist.before.key = arg[1].key
             /\ arg[1].now_ms = hist.before.now_ms + 2000 ) =>
              /\ res[1].allowed
              /\ res[1].remaining = 1

\* the test's scenario: capacity 10, ten allowed and one denied at 0, then a
\* check at 2000
C15_Witness ==
    /\ pc[1] = "done" /\ res[1].kind = "ok"
    /\ arg[1].rpm = 60 /\ arg[1].max_tokens = 10
    /\ hist.before.n = 11 /\ hist.before.max_tokens = 10 /\ hist.before.now_ms = 0
    /\ arg[1].now_ms = 2000
    /\ res[1].allowed /\ res[1].remaining = 1

\* C16: the last_refill a check persists is never below the last_refill it
\* read from the record (the clock of the model never steps back).
C16_LastRefillMonotone ==
    \A c \in Calls :
        ( loc[c].stage \in {"written", "complete"} /\ ~loc[c].nil ) =>
            /\ rec[arg[c].key].present
            /\ pc[c] = "hmset" => rec[arg[c].key].last_refill >= loc[c].got_last_refill
            /\ arg[c].now_ms >= loc[c].got_last_refill

\* C17: every executed check, allowed or denied, sets its key's expiration to
\* 120 s after the call; the record is there at every time less than 120 s
\* after the key's last check and gone from then on, the next check then
\* starting from a full bucket; nothing but the passing of 120 s removes a
\* record.
C17_IdleExpiration ==
    /\ [] ( /\ ( pc[1] = "done" /\ res[1].kind = "ok" ) =>
                 /\ rec[arg[1].key].present /\ rec[arg[1].key].ttl
                 /\ rec[arg[1].key].expireAt = arg[1].now_ms + ExpireMs
                 /\ Live(arg[1].key) <=> clock < arg[1].now_ms + ExpireMs
                 /\ loc[1].saw = "expired" =>
                       /\ loc[1].nil
                       /\ loc[1].pre = arg[1].max_tokens * Unit
            /\ \A k \in Keys : Live(k) => pc[1] = "done" /\ arg[1].key = k )
    /\ [][ \A k \in Keys :
             ( Live(k) /\ ~Live(k)' ) =>
                 /\ rec' = rec
                 /\ clock < rec[k].expireAt /\ clock' >= rec[k].expireAt ]_vars

\* a denied check made after time 0 was the key's last, and 120 s after it
\* the record is gone
C17_Witness ==
    /\ pc[1] = "done" /\ res[1].kind = "ok" /\ ~res[1].allowed
    /\ arg[1].now_ms > 0
    /\ rec[arg[1].key].present
    /\ clock >= arg[1].now_ms + ExpireMs
    /\ ~Live(arg[1].key)

\* C18: a check for identity A reads and writes the record under
\* "ratelimit:" + A only: a step that changes the record or the expiration
\* of B's key is a step of the script of a check for B, and what a script
\* reads is the record of its own identity's key.
C18_KeyIsolation ==
    [][ /\ \A k \in DOMAIN rec :
             rec'[k] # rec[k] =>
                 \E c \in Calls : /\ k = "ratelimit:" \o arg[c].id
                                  /\ pc[c] \in {"invoke", "hmget", "hmset"}
                                  /\ pc'[c] # pc[c]
        /\ \A c \in Calls :
             ( pc[c] = "invoke" /\ pc'[c] = "hmget" ) =>
                 \E k \in DOMAIN rec :
                     /\ k = "ratelimit:" \o arg[c].id
                     /\ loc'[c].nil = HMGet(rec[k], clock).nil
                     /\ loc'[c].got_tokens = HMGet(rec[k], clock).tokens
                     /\ loc'[c].got_last_refill = HMGet(rec[k], clock).last_refill
      ]_vars

\* the script of a check for "a" has written while the record of "b" is live
C18_Witness ==
    \E c \in Calls :
        /\ pc[c] = "hmset" /\ arg[c].id = "a"
        /\ Live("ratelimit:" \o "b")
        /\ rec["ratelimit:" \o "a"].last_refill = arg[c].now_ms

\* the checks of the run that were allowed at the instants t1 .. t2
AllowedIn(t1, t2) ==
    LET ts == { t \in RunInstants : t1 <= t /\ t <= t2 }
        S[T \in SUBSET ts] ==
            IF T = {} THEN 0
            ELSE LET t == CHOOSE x \in T : TRUE
                 IN  hist.count[t] + S[T \ {t}]
    IN  S[ts]

\* C19: one key, one positive rate, one burst, timestamps that never step
\* back: in every window [t1, t2] the allowed checks number at most
\* max_tokens + (t2 - t1) / 1000 * refill_rate, expiry of the record included.
C19_RateBound ==
    ( hist.run /\ hist.rpm > 0 ) =>
        \A t1, t2 \in RunInstants :
            t1 <= t2 =>
                AllowedIn(t1, t2) * Unit
                    <= MaxTokens(hist.burst) * Unit + (t2 - t1) * hist.rpm

\* C20: once a check is denied at t with retry_after_ms = R and no check has
\* been allowed since, a check of the same rate and burst at t + R or later
\* is allowed, whatever denied checks were made in between.
C20_RetrySufficient ==
    ( hist.run /\ pc[1] = "done" /\ res[1].kind = "ok" /\ hist.late )
        => res[1].allowed

=============================================================================
